---- MODULE Spec2Model ----
(***************************************************************************)
(* Model of src/traceroute.py: the Tracer class (constructor, run() and   *)
(* its helpers create_receiver, create_sender, get_geoip).                 *)
(*                                                                         *)
(* run() is modelled statement by statement; every call that can block or  *)
(* raise is one action whose outcome (success, timeout, exception) is      *)
(* chosen by the environment.  Sockets are counted as open from            *)
(* socket.socket() until an explicit close(); the model performs no        *)
(* garbage collection.                                                     *)
(***************************************************************************)
EXTENDS Integers, Sequences, FiniteSets, TLC

VARIABLES
    pc,            \* position of the program
    calls,         \* number of run() calls started on the Tracer
    error,         \* exception that left __init__ / run(), or None
    exit_line,     \* source line of the break that ended the last run(), or 0
    dst,           \* self.dst
    hops,          \* self.hops
    ttl,           \* self.ttl
    port,          \* self.port
    geoip_reader,  \* self.geoip_reader: the opened database
    dst_ip,        \* run(): dst_ip
    start_time,    \* run(): start_time
    end_time,      \* run(): end_time
    receiver,      \* run(): receiver
    sender,        \* run(): sender
    addr,          \* run(): addr
    recv_res,      \* outcome of the last receiver.recvfrom()
    openRecv,      \* ICMP sockets created and not closed
    openSend,      \* UDP sockets created and not closed
    resolved,      \* name resolutions performed: <<call, by, result>>
    sent,          \* datagrams handed to the network by sendto()
    rcvd,          \* results of recvfrom(), one per attempted receive
    stdout         \* lines printed

vars == <<pc, calls, error, exit_line, dst, hops, ttl, port, geoip_reader,
          dst_ip, start_time, end_time, receiver, sender, addr, recv_res,
          openRecv, openSend, resolved, sent, rcvd, stdout>>

(***************************************************************************)
(* Bounds of the model.                                                    *)
(***************************************************************************)
MaxHops == 2
MaxTime == 1

(***************************************************************************)
(* Program constants and input sets.                                       *)
(***************************************************************************)
None == "None"
\* None in a variable that otherwise holds an integer, a socket, an address
\* pair or a database: one absent value of each kind
NoneInt == -1
NoneSocket == [type |-> None]
NoneAddr == <<>>
NoneReader == <<>>

PortLow == 33434
PortHigh == 33535

\* Ports taking the end of the range as included
Ports_OffByOne == {PortLow, PortHigh}

\* random.choice(range(33434, 33535)): the two ends of the range stand for it
Ports == {PortLow, PortHigh - 1}

Host == "example.test"

\* addresses the system resolver may return for Host
HostAddrs == {"93.184.216.34", "93.184.216.35"}

\* addresses an ICMP datagram may come from
ReplyAddrs == {"93.184.216.34", "10.0.0.1"}

HopsSet == 0 .. MaxHops

\* readings of time.time(), in ticks of 0.015 ms
Times == 0 .. MaxTime

\* responses of geoip2.database.Reader.city(ip)
CityResponse == [kind |-> "response", city |-> "Cidade", country |-> "Pais",
                 latitude |-> "1.5", longitude |-> "2.5"]
CountryResponse == [kind |-> "response", city |-> None, country |-> "Testland",
                    latitude |-> "0.0", longitude |-> "0.0"]
AddressNotFound == [kind |-> "AddressNotFoundError"]
LookupError == [kind |-> "Exception", e |-> "TypeError"]

Responses == <<CityResponse, CountryResponse, AddressNotFound, LookupError>>

\* databases the reader may have opened: address -> result of city(address);
\* between them every kind of result occurs
GeoDbs == { [a \in ReplyAddrs |->
                Responses[IF a = "10.0.0.1" THEN i ELSE i + 1]] : i \in {1, 3} }

(***************************************************************************)
(* Pure helpers.                                                           *)
(***************************************************************************)

\* round(n / q) to the nearest integer, ties to the even one (Python round)
RoundHalfEven(n, q) ==
    LET f == n \div q
        r == n % q
    IN  IF 2 * r < q THEN f
        ELSE IF 2 * r > q THEN f + 1
        ELSE IF f % 2 = 0 THEN f ELSE f + 1

\* round((end_time - start_time) * 1000, 2), in hundredths of a millisecond
TimeCost(start, end) == RoundHalfEven(3 * (end - start), 2)

\* get_geoip formatting the city without testing that there is one
get_geoip_NoCityTest(reader, ip) ==
    LET response == reader[ip]
    IN  IF response.kind = "response"
        THEN <<response.city, ", ", response.country, " (Lat: ",
               response.latitude, ", Lon: ", response.longitude, ")">>
        ELSE IF response.kind = "AddressNotFoundError"
        THEN <<"Localizacao desconhecida">>
        ELSE <<"Erro ao obter localizacao: ", response.e>>

\* Tracer.get_geoip(ip): the location text, as the sequence of its pieces
\* (the fixed texts are written without their diacritics)
get_geoip(reader, ip) ==
    LET response == reader[ip]
    IN  IF response.kind = "response"
        THEN IF response.city # None
             THEN <<response.city, ", ", response.country, " (Lat: ",
                    response.latitude, ", Lon: ", response.longitude, ")">>
             ELSE <<response.country, " (Lat: ",
                    response.latitude, ", Lon: ", response.longitude, ")">>
        ELSE IF response.kind = "AddressNotFoundError"
        THEN <<"Localizacao desconhecida">>
        ELSE <<"Erro ao obter localizacao: ", response.e>>

(***************************************************************************)
(* Initial state: no Tracer constructed yet.                               *)
(***************************************************************************)
Init ==
    /\ pc = "new"
    /\ calls = 0
    /\ error = None
    /\ exit_line = 0
    /\ dst = None
    /\ hops = NoneInt
    /\ ttl = NoneInt
    /\ port = NoneInt
    /\ geoip_reader = NoneReader
    /\ dst_ip = None
    /\ start_time = NoneInt
    /\ end_time = NoneInt
    /\ receiver = NoneSocket
    /\ sender = NoneSocket
    /\ addr = NoneAddr
    /\ recv_res = None
    /\ openRecv = 0
    /\ openSend = 0
    /\ resolved = <<>>
    /\ sent = <<>>
    /\ rcvd = <<>>
    /\ stdout = <<>>

locals == <<dst_ip, start_time, end_time, receiver, sender, addr, recv_res>>
fields == <<dst, hops, ttl, port, geoip_reader>>
sockets == <<openRecv, openSend>>
history == <<resolved, sent, rcvd, stdout>>

\* the frame of run() is gone: its local variables no longer exist
NoLocals ==
    /\ dst_ip' = None
    /\ start_time' = NoneInt
    /\ end_time' = NoneInt
    /\ receiver' = NoneSocket
    /\ sender' = NoneSocket
    /\ addr' = NoneAddr
    /\ recv_res' = None

\* an exception leaves run()
Raise(e) ==
    /\ pc' = "raised"
    /\ error' = e
    /\ NoLocals

(***************************************************************************)
(* Tracer.__init__                                                         *)
(***************************************************************************)
TracerInitOk ==
    /\ pc = "new"
    /\ \E h \in HopsSet, p \in Ports, db \in GeoDbs :
          /\ dst' = Host
          /\ hops' = h
          /\ ttl' = 1
          /\ port' = p
          /\ geoip_reader' = db
    /\ stdout' = stdout \o <<[kind |-> "debug", text |-> "Tentando abrir"],
                             [kind |-> "debug", text |-> "carregado com sucesso"]>>
    /\ pc' = "constructed"
    /\ UNCHANGED <<calls, error, exit_line, locals, sockets, resolved, sent, rcvd>>

\* geoip2.database.Reader raises: FileNotFoundError becomes IOError, any
\* other exception propagates unchanged; no Tracer object exists afterwards
TracerInitFail ==
    /\ pc = "new"
    /\ \E e \in {"IOError_geoip_db", "InvalidDatabaseError"} : error' = e
    /\ stdout' = Append(stdout, [kind |-> "debug", text |-> "Tentando abrir"])
    /\ pc' = "init_failed"
    /\ UNCHANGED <<calls, exit_line, fields, locals, sockets, resolved, sent, rcvd>>

(***************************************************************************)
(* Tracer.run                                                              *)
(***************************************************************************)
\* main() calls run() once on the Tracer it constructed (lines 147-148)
Callable == pc = "constructed"

\* lines 43-54: gethostbyname succeeds, the banner is printed
RunResolveOk ==
    /\ Callable
    /\ calls' = calls + 1
    /\ error' = None
    /\ exit_line' = 0
    /\ \E a \in HostAddrs :
          /\ dst_ip' = a
          /\ resolved' = Append(resolved, [call |-> calls + 1, by |-> "gethostbyname", result |-> a])
          /\ stdout' = Append(stdout, [kind |-> "banner", call |-> calls + 1,
                                       dst |-> dst, dst_ip |-> a, hops |-> hops])
    /\ pc' = "start_time"
    /\ UNCHANGED <<fields, start_time, end_time, receiver, sender, addr, recv_res,
                   sockets, sent, rcvd>>

\* RunResolveFail going on into the loop without a destination address
RunResolveFail_Swallowed ==
    /\ Callable
    /\ calls' = calls + 1
    /\ resolved' = Append(resolved, [call |-> calls + 1, by |-> "gethostbyname", result |-> None])
    /\ pc' = "start_time"
    /\ UNCHANGED <<error, exit_line, fields, locals, sockets, sent, rcvd, stdout>>

\* lines 43-46: gethostbyname raises socket.error, run() raises IOError
RunResolveFail ==
    /\ Callable
    /\ calls' = calls + 1
    /\ exit_line' = 0
    /\ resolved' = Append(resolved, [call |-> calls + 1, by |-> "gethostbyname", result |-> None])
    /\ Raise("IOError_destino")
    /\ UNCHANGED <<fields, sockets, sent, rcvd, stdout>>

\* line 57
StartTime ==
    /\ pc = "start_time"
    /\ \E t \in Times : start_time' = t
    /\ pc' = "create_receiver"
    /\ UNCHANGED <<calls, error, exit_line, fields, dst_ip, end_time, receiver, sender,
                   addr, recv_res, sockets, history>>

\* line 58, create_receiver lines 91-105: socket created, bound, returned
CreateReceiverOk ==
    /\ pc = "create_receiver"
    /\ pc' = "create_sender"
    /\ openRecv' = openRecv + 1
    /\ receiver' = [type |-> "SOCK_RAW", port |-> port, timeout |-> 5, closed |-> FALSE]
    /\ UNCHANGED <<calls, error, exit_line, fields, dst_ip, start_time, end_time, sender,
                   addr, recv_res, openSend, history>>

\* create_receiver lines 91-95: socket.socket() raises (no privilege)
CreateReceiverSocketFail ==
    /\ pc = "create_receiver"
    /\ Raise("OSError_socket")
    /\ UNCHANGED <<calls, exit_line, fields, sockets, history>>

\* CreateReceiverBindFail trying the bind again instead of raising
CreateReceiverBindFail_Retry ==
    /\ pc = "create_receiver"
    /\ openRecv' = openRecv + 1
    /\ pc' = "create_receiver"
    /\ UNCHANGED <<calls, error, exit_line, fields, locals, openSend, history>>

\* create_receiver lines 100-103: bind raises, IOError is raised; the socket
\* created at line 91 is not closed
CreateReceiverBindFail ==
    /\ pc = "create_receiver"
    /\ openRecv' = openRecv + 1
    /\ Raise("IOError_bind")
    /\ UNCHANGED <<calls, exit_line, fields, openSend, history>>

\* CreateSenderOk setting the initial TTL instead of the current one
CreateSenderOk_FirstTtl ==
    /\ pc = "create_sender"
    /\ openSend' = openSend + 1
    /\ sender' = [type |-> "SOCK_DGRAM", ttl |-> 1, closed |-> FALSE]
    /\ pc' = "sendto"
    /\ UNCHANGED <<calls, error, exit_line, fields, dst_ip, start_time, end_time, receiver,
                   addr, recv_res, openRecv, history>>

\* line 59, create_sender lines 112-120
CreateSenderOk ==
    /\ pc = "create_sender"
    /\ pc' = "sendto"
    /\ openSend' = openSend + 1
    /\ sender' = [type |-> "SOCK_DGRAM", ttl |-> ttl, closed |-> FALSE]
    /\ UNCHANGED <<calls, error, exit_line, fields, dst_ip, start_time, end_time, receiver,
                   addr, recv_res, openRecv, history>>

\* create_sender: socket.socket() raises (lines 112-116, nothing created) or
\* setsockopt raises (line 118, the created socket is not closed)
CreateSenderFail ==
    /\ pc = "create_sender"
    /\ \E created \in BOOLEAN :
          openSend' = IF created THEN openSend + 1 ELSE openSend
    /\ Raise("OSError_sender")
    /\ UNCHANGED <<calls, exit_line, fields, openRecv, history>>

\* line 60: sendto resolves self.dst and sends the empty datagram
SendProbeOk ==
    /\ pc = "sendto"
    /\ \E a \in HostAddrs :
          /\ resolved' = Append(resolved, [call |-> calls, by |-> "sendto", result |-> a])
          /\ sent' = Append(sent, [call |-> calls, ttl |-> sender.ttl, to |-> a,
                                   port |-> port, payload |-> <<>>])
    /\ pc' = "recvfrom"
    /\ UNCHANGED <<calls, error, exit_line, fields, locals, sockets, rcvd, stdout>>

\* line 60: sendto raises (name not resolved, network unreachable)
SendProbeFail ==
    /\ pc = "sendto"
    /\ resolved' = Append(resolved, [call |-> calls, by |-> "sendto", result |-> None])
    /\ Raise("OSError_sendto")
    /\ UNCHANGED <<calls, exit_line, fields, sockets, sent, rcvd, stdout>>

\* lines 62-65: a datagram arrives within the timeout
RecvOk ==
    /\ pc = "recvfrom"
    /\ recv_res' = "ok"
    /\ pc' = "finally"
    /\ \E ip \in ReplyAddrs, t \in Times :
          /\ addr' = <<ip, 0>>
          /\ end_time' = t
          /\ rcvd' = Append(rcvd, [call |-> calls, ttl |-> ttl, ip |-> ip])
    /\ UNCHANGED <<calls, error, exit_line, fields, dst_ip, start_time, receiver, sender,
                   sockets, resolved, sent, stdout>>

\* RecvError letting the socket.error leave run()
RecvError_Fatal ==
    /\ pc = "recvfrom"
    /\ rcvd' = Append(rcvd, [call |-> calls, ttl |-> ttl, ip |-> None])
    /\ openRecv' = openRecv - 1
    /\ openSend' = openSend - 1
    /\ Raise("socket_error")
    /\ UNCHANGED <<calls, exit_line, fields, resolved, sent, stdout>>

\* RecvError without the reset of addr at line 62
RecvError_StaleAddr ==
    /\ pc = "recvfrom"
    /\ \E r \in {"timeout", "error"} : recv_res' = r
    /\ rcvd' = Append(rcvd, [call |-> calls, ttl |-> ttl, ip |-> None])
    /\ pc' = "finally"
    /\ UNCHANGED <<calls, error, exit_line, fields, dst_ip, start_time, end_time, receiver,
                   sender, addr, sockets, resolved, sent, stdout>>

\* lines 62-67: recvfrom raises socket.error (timeout or another error)
RecvError ==
    /\ pc = "recvfrom"
    /\ \E r \in {"timeout", "error"} : recv_res' = r
    /\ addr' = NoneAddr
    /\ rcvd' = Append(rcvd, [call |-> calls, ttl |-> ttl, ip |-> None])
    /\ pc' = "finally"
    /\ UNCHANGED <<calls, error, exit_line, fields, dst_ip, start_time, end_time, receiver,
                   sender, sockets, resolved, sent, stdout>>

\* Finally without receiver.close()
Finally_NoReceiverClose ==
    /\ pc = "finally"
    /\ sender' = [sender EXCEPT !.closed = TRUE]
    /\ openSend' = openSend - 1
    /\ pc' = "emit"
    /\ UNCHANGED <<calls, error, exit_line, fields, dst_ip, start_time, end_time, addr,
                   recv_res, receiver, openRecv, history>>

\* lines 68-70
Finally ==
    /\ pc = "finally"
    /\ receiver' = [receiver EXCEPT !.closed = TRUE]
    /\ sender' = [sender EXCEPT !.closed = TRUE]
    /\ openRecv' = openRecv - 1
    /\ openSend' = openSend - 1
    /\ pc' = "emit"
    /\ UNCHANGED <<calls, error, exit_line, fields, dst_ip, start_time, end_time, addr,
                   recv_res, history>>

\* EmitReply without the break of lines 76-77
EmitReply_NoBreak ==
    /\ pc = "emit"
    /\ addr # NoneAddr
    /\ stdout' = Append(stdout, [kind |-> "reply", call |-> calls, ttl |-> ttl,
                                 ip |-> addr[1],
                                 time_cost |-> TimeCost(start_time, end_time),
                                 location |-> get_geoip(geoip_reader, addr[1])])
    /\ pc' = "incr"
    /\ UNCHANGED <<calls, error, exit_line, fields, locals, sockets, resolved, sent, rcvd>>

\* EmitReply letting a failed lookup leave run() as an exception
EmitReply_GeoFatal ==
    /\ pc = "emit"
    /\ addr # NoneAddr
    /\ IF geoip_reader[addr[1]].kind = "Exception"
       THEN /\ Raise("geoip_error")
            /\ UNCHANGED <<exit_line, stdout>>
       ELSE /\ stdout' = Append(stdout, [kind |-> "reply", call |-> calls, ttl |-> ttl,
                                         ip |-> addr[1],
                                         time_cost |-> TimeCost(start_time, end_time),
                                         location |-> get_geoip(geoip_reader, addr[1])])
            /\ error' = error
            /\ IF addr[1] = dst_ip
               THEN pc' = "returned" /\ exit_line' = 77 /\ NoLocals
               ELSE pc' = "incr" /\ exit_line' = exit_line /\ UNCHANGED locals
    /\ UNCHANGED <<calls, fields, sockets, resolved, sent, rcvd>>

\* EmitReply adding 1 to the counter before the break of line 77
EmitReply_IncrBeforeBreak ==
    /\ pc = "emit"
    /\ addr # NoneAddr
    /\ stdout' = Append(stdout, [kind |-> "reply", call |-> calls, ttl |-> ttl,
                                 ip |-> addr[1],
                                 time_cost |-> TimeCost(start_time, end_time),
                                 location |-> get_geoip(geoip_reader, addr[1])])
    /\ IF addr[1] = dst_ip
       THEN pc' = "returned" /\ exit_line' = 77 /\ ttl' = ttl + 1 /\ NoLocals
       ELSE pc' = "incr" /\ exit_line' = exit_line /\ ttl' = ttl /\ UNCHANGED locals
    /\ UNCHANGED <<calls, error, dst, hops, port, geoip_reader, sockets, resolved, sent, rcvd>>

\* lines 72-77: a reply was captured
EmitReply ==
    /\ pc = "emit"
    /\ addr # NoneAddr
    /\ stdout' = Append(stdout, [kind |-> "reply", call |-> calls, ttl |-> ttl,
                                 ip |-> addr[1],
                                 time_cost |-> TimeCost(start_time, end_time),
                                 location |-> get_geoip(geoip_reader, addr[1])])
    /\ IF addr[1] = dst_ip
       THEN pc' = "returned" /\ exit_line' = 77 /\ NoLocals
       ELSE pc' = "incr" /\ exit_line' = exit_line /\ UNCHANGED locals
    /\ UNCHANGED <<calls, error, fields, sockets, resolved, sent, rcvd>>

\* EmitStar probing the same TTL again after a hop that did not answer
EmitStar_Retry ==
    /\ pc = "emit"
    /\ addr = NoneAddr
    /\ stdout' = Append(stdout, [kind |-> "star", call |-> calls, ttl |-> ttl])
    /\ pc' = "start_time"
    /\ UNCHANGED <<calls, error, exit_line, fields, locals, sockets, resolved, sent, rcvd>>

\* lines 78-79: nothing was captured
EmitStar ==
    /\ pc = "emit"
    /\ addr = NoneAddr
    /\ stdout' = Append(stdout, [kind |-> "star", call |-> calls, ttl |-> ttl])
    /\ pc' = "incr"
    /\ UNCHANGED <<calls, error, exit_line, fields, locals, sockets, resolved, sent, rcvd>>

\* Incr stepping the counter by two
Incr_SkipOne ==
    /\ pc = "incr"
    /\ ttl' = ttl + 2
    /\ IF ttl + 2 > hops
       THEN pc' = "returned" /\ exit_line' = 84 /\ NoLocals
       ELSE /\ pc' = "start_time"
            /\ exit_line' = exit_line
            /\ recv_res' = None
            /\ UNCHANGED <<dst_ip, start_time, end_time, receiver, sender, addr>>
    /\ UNCHANGED <<calls, error, dst, hops, port, geoip_reader, sockets, history>>

\* Incr leaving the loop as soon as the counter reaches hops
Incr_LimitOffByOne ==
    /\ pc = "incr"
    /\ ttl' = ttl + 1
    /\ IF ttl + 1 >= hops
       THEN pc' = "returned" /\ exit_line' = 84 /\ NoLocals
       ELSE /\ pc' = "start_time"
            /\ exit_line' = exit_line
            /\ recv_res' = None
            /\ UNCHANGED <<dst_ip, start_time, end_time, receiver, sender, addr>>
    /\ UNCHANGED <<calls, error, dst, hops, port, geoip_reader, sockets, history>>

\* lines 81-84
Incr ==
    /\ pc = "incr"
    /\ ttl' = ttl + 1
    /\ IF ttl + 1 > hops
       THEN pc' = "returned" /\ exit_line' = 84 /\ NoLocals
       ELSE /\ pc' = "start_time"
            /\ exit_line' = exit_line
            /\ recv_res' = None
            /\ UNCHANGED <<dst_ip, start_time, end_time, receiver, sender, addr>>
    /\ UNCHANGED <<calls, error, dst, hops, port, geoip_reader, sockets, history>>

Next ==
    \/ TracerInitOk
    \/ TracerInitFail
    \/ RunResolveOk
    \/ RunResolveFail
    \/ StartTime
    \/ CreateReceiverOk
    \/ CreateReceiverSocketFail
    \/ CreateReceiverBindFail
    \/ CreateSenderOk
    \/ CreateSenderFail
    \/ SendProbeOk
    \/ SendProbeFail
    \/ RecvOk
    \/ RecvError
    \/ Finally
    \/ EmitReply
    \/ EmitStar
    \/ Incr

Spec == Init /\ [][Next]_vars

(***************************************************************************)
(* Views of the recorded history.                                          *)
(***************************************************************************)
IsHop(l) == l.kind \in {"reply", "star"}

\* the hop results printed so far, and those of call c
HopLines == SelectSeq(stdout, IsHop)
HopLinesOf(c) == SelectSeq(stdout, LAMBDA l : IsHop(l) /\ l.call = c)

\* the probes sent by call c
SentOf(c) == SelectSeq(sent, LAMBDA p : p.call = c)

\* the address gethostbyname returned to call c (line 44), None if it raised
DstIpOf(c) ==
    LET S == {i \in DOMAIN resolved :
                 resolved[i].call = c /\ resolved[i].by = "gethostbyname"}
    IN  IF S = {} THEN None ELSE resolved[CHOOSE i \in S : TRUE].result

\* run() holds a socket in receiver / sender: from its creation on, and at the
\* top of the loop once an iteration has been completed
HasReceiver ==
    \/ pc \in {"create_sender", "sendto", "recvfrom", "finally", "emit", "incr"}
    \/ (pc \in {"start_time", "create_receiver"} /\ rcvd # <<>>)
HasSender ==
    \/ pc \in {"sendto", "recvfrom", "finally", "emit", "incr"}
    \/ (pc \in {"start_time", "create_receiver", "create_sender"} /\ rcvd # <<>>)

\* the receive recorded at position i captured the destination address
Matched(i) == rcvd[i].ip # None /\ rcvd[i].ip = DstIpOf(rcvd[i].call)

(***************************************************************************)
(* C1: when the address captured in an iteration equals the destination    *)
(* address resolved at startup, the hop result of that TTL is printed and   *)
(* run() ends at the break of line 77: the call sends no probe and prints   *)
(* no hop result for a larger TTL, and receives nothing more.               *)
(***************************************************************************)
C1_DestinationStopsLoop ==
    \A i \in DOMAIN rcvd :
        Matched(i) =>
            LET r == rcvd[i]
            IN  /\ \A j \in DOMAIN sent :
                      sent[j].call = r.call => sent[j].ttl <= r.ttl
                /\ \A k \in DOMAIN stdout :
                      (IsHop(stdout[k]) /\ stdout[k].call = r.call)
                          => stdout[k].ttl <= r.ttl
                /\ \A j \in DOMAIN rcvd : j > i => rcvd[j].call # r.call
                /\ (r.call = calls) =>
                      /\ pc \in {"finally", "emit", "returned"}
                      /\ pc = "returned" =>
                            /\ exit_line = 77
                            /\ stdout[Len(stdout)].kind = "reply"
                            /\ stdout[Len(stdout)].ttl = r.ttl
                            /\ stdout[Len(stdout)].ip = r.ip

\* a run ended by a destination match before the hop limit
C1_Witness ==
    /\ pc = "returned"
    /\ exit_line = 77
    /\ ttl < hops
    /\ Matched(Len(rcvd))

(***************************************************************************)
(* C2: on a freshly constructed Tracer with hops >= 1 the probes of run()   *)
(* carry the TTL values 1, 2, 3, ... in this order, without gap or repeat,  *)
(* none above hops; a run that ends at the hop limit has sent exactly       *)
(* 1..hops, and one that ends earlier ended on a destination match.         *)
(***************************************************************************)
C2_TtlSequence ==
    (calls = 1 /\ hops >= 1) =>
        /\ \A i \in DOMAIN SentOf(1) : SentOf(1)[i].ttl = i
        /\ Len(SentOf(1)) <= hops
        /\ (pc = "returned" /\ exit_line = 84) => Len(SentOf(1)) = hops
        /\ (pc = "returned" /\ exit_line = 77) =>
              /\ Matched(Len(rcvd))
              /\ Len(SentOf(1)) = rcvd[Len(rcvd)].ttl

\* a run that went through all TTLs 1..hops, hops being at least 2
C2_Witness ==
    /\ calls = 1
    /\ hops >= 2
    /\ pc = "returned"
    /\ exit_line = 84
    /\ Len(SentOf(1)) = hops

(***************************************************************************)
(* C3: a run() that returns without having captured the destination        *)
(* address has printed exactly hops hop results, one for each of the TTLs   *)
(* 1..hops in this order, the last one for TTL = hops.                      *)
(***************************************************************************)
NoMatch == \A i \in DOMAIN rcvd : ~Matched(i)

C3_ExactlyNHopResults ==
    (pc = "returned" /\ NoMatch) =>
        /\ Len(HopLines) = hops
        /\ \A i \in DOMAIN HopLines : HopLines[i].ttl = i
        /\ HopLines # <<>> /\ HopLines[Len(HopLines)].ttl = hops

\* the same statement restricted to the hop counts from 1 on
C3_FromOne == (pc = "returned" /\ hops >= 1) => C3_ExactlyNHopResults

(***************************************************************************)
(* C4: once an iteration has been left, by its normal end or by an          *)
(* exception raised in it, no socket created by the session is open.        *)
(***************************************************************************)
C4_EndpointsReleased ==
    pc \in {"emit", "incr", "start_time", "returned", "raised"} =>
        openRecv = 0 /\ openSend = 0

(***************************************************************************)
(* C5: every probe is sent to (dst_ip, port), dst_ip being the address      *)
(* resolved at line 44 and compared at line 76, and the only name           *)
(* resolution of a run is the one before the loop.                          *)
(***************************************************************************)
C5_ProbesToResolvedAddress ==
    /\ \A i \in DOMAIN sent :
          sent[i].to = DstIpOf(sent[i].call) /\ sent[i].port = port
    /\ \A i \in DOMAIN resolved : resolved[i].by = "gethostbyname"

(***************************************************************************)
(* C6: when the receiving endpoint is not obtained in an iteration (the     *)
(* socket is not created or the bind fails), run() raises in that           *)
(* iteration: nothing is retried, no probe is sent and no hop result is     *)
(* printed for that TTL or a later one, and ttl keeps its value.            *)
(***************************************************************************)
C6_BindFailureAborts ==
    /\ [](pc = "raised" /\ error \in {"IOError_bind", "OSError_socket"} =>
            /\ \A i \in DOMAIN sent : sent[i].ttl < ttl
            /\ \A i \in DOMAIN HopLines : HopLines[i].ttl < ttl
            /\ Len(HopLines) = ttl - 1)
    /\ [][/\ (pc = "create_receiver" /\ pc' # "create_sender") =>
                /\ pc' = "raised"
                /\ error' \in {"IOError_bind", "OSError_socket"}
                /\ ttl' = ttl
                /\ sent' = sent
                /\ rcvd' = rcvd
                /\ stdout' = stdout
          /\ (pc = "create_receiver" /\ pc' = "create_sender") =>
                /\ openRecv' = openRecv + 1
                /\ receiver'.closed = FALSE
                /\ receiver'.port = port
          /\ pc # "raised"]_vars

\* the bind failed in the second iteration
C6_Witness ==
    /\ pc = "raised"
    /\ error = "IOError_bind"
    /\ ttl = 2
    /\ Len(HopLines) = 1

(***************************************************************************)
(* C7: a receive that times out or fails is not an error of the run:        *)
(* nothing is captured, the line of the TTL alone is printed, and the       *)
(* counter is then advanced and compared with hops by the same step as      *)
(* after a reply that is not the destination.                               *)
(***************************************************************************)
C7_NoReplyIsNotAnError ==
    [][/\ pc = "recvfrom" =>
             /\ pc' = "finally"
             /\ error' = None
             /\ rcvd'[Len(rcvd')].ip = None => (addr' = NoneAddr /\ recv_res' \in {"timeout", "error"})
       /\ (pc = "emit" /\ recv_res \in {"timeout", "error"}) =>
             /\ stdout' = Append(stdout, [kind |-> "star", call |-> calls, ttl |-> ttl])
             /\ pc' = "incr"
             /\ ttl' = ttl
             /\ error' = None
       /\ pc = "incr" =>
             /\ ttl' = ttl + 1
             /\ pc' = IF ttl + 1 > hops THEN "returned" ELSE "start_time"
             /\ error' = None]_vars

\* the first hop did not answer and the second iteration is under way
C7_Witness ==
    /\ pc = "create_receiver"
    /\ ttl = 2
    /\ HopLines = <<[kind |-> "star", call |-> 1, ttl |-> 1]>>

(***************************************************************************)
(* C8: whatever the lookup of the captured address yields (a location,      *)
(* address not found, another failure), the reply line of the hop is        *)
(* printed, no exception leaves run(), ttl is untouched, and the run ends   *)
(* at line 77 exactly when the address is the destination address.          *)
(***************************************************************************)
C8_GeoLookupNeverAborts ==
    [][(pc = "emit" /\ addr # NoneAddr) =>
          /\ Len(stdout') = Len(stdout) + 1
          /\ stdout'[Len(stdout')].kind = "reply"
          /\ stdout'[Len(stdout')].ttl = ttl
          /\ stdout'[Len(stdout')].ip = addr[1]
          /\ error' = None
          /\ ttl' = ttl
          /\ pc' = IF addr[1] = dst_ip THEN "returned" ELSE "incr"]_vars

\* a hop whose lookup failed was printed and the loop went on
C8_Witness ==
    /\ pc = "incr"
    /\ stdout[Len(stdout)].kind = "reply"
    /\ stdout[Len(stdout)].location = <<"Erro ao obter localizacao: ", "TypeError">>

(***************************************************************************)
(* C9: when the database cannot be opened or the destination cannot be      *)
(* resolved, the session ends with an error before any probing: no socket   *)
(* was created, no probe sent, nothing received, no hop result printed.     *)
(***************************************************************************)
C9_SetupErrorsBeforeProbing ==
    /\ []((pc = "init_failed" \/ (pc = "raised" /\ error = "IOError_destino")) =>
            /\ error # None
            /\ openRecv = 0 /\ openSend = 0
            /\ sent = <<>> /\ rcvd = <<>> /\ HopLines = <<>>)
    /\ [][/\ (pc = "new" /\ pc' # "constructed") =>
                (pc' = "init_failed" /\ error' # None /\ calls' = 0)
          /\ pc # "init_failed"
          /\ (pc = "constructed" /\ resolved'[Len(resolved')].result = None) =>
                (pc' = "raised" /\ error' = "IOError_destino")]_vars

\* run() raised because the destination was not resolved
C9_Witness ==
    /\ pc = "raised"
    /\ error = "IOError_destino"
    /\ calls = 1

(***************************************************************************)
(* C10: the hop results correspond one to one, in order, to the receives:   *)
(* a receive that captured an address gives a line with that address, a     *)
(* round-trip time and the location looked up for it, and a receive that    *)
(* captured nothing gives a line with the TTL alone.                        *)
(***************************************************************************)
C10_RttAndLocationIffAddress ==
    /\ Len(HopLines) <= Len(rcvd)
    /\ Len(rcvd) <= Len(HopLines) + 1
    /\ \A i \in DOMAIN HopLines :
          LET l == HopLines[i]
              r == rcvd[i]
          IN  /\ l.ttl = r.ttl
              /\ r.ip # None =>
                    /\ DOMAIN l = {"kind", "call", "ttl", "ip", "time_cost", "location"}
                    /\ l.kind = "reply"
                    /\ l.ip = r.ip
                    /\ l.time_cost \in Int
                    /\ l.location = get_geoip(geoip_reader, r.ip)
              /\ r.ip = None =>
                    /\ DOMAIN l = {"kind", "call", "ttl"}
                    /\ l.kind = "star"

\* a run that printed a reply line and then a line without reply
C10_Witness ==
    /\ Len(HopLines) = 2
    /\ HopLines[1].kind = "reply"
    /\ HopLines[2].kind = "star"

(***************************************************************************)
(* C11: no probe is sent with a TTL above hops and no hop result is         *)
(* printed for a TTL above hops, for every hop count the constructor and    *)
(* the prompt accept.                                                       *)
(***************************************************************************)
C11_TtlWithinLimit ==
    /\ \A i \in DOMAIN sent : sent[i].ttl <= hops
    /\ \A i \in DOMAIN HopLines : HopLines[i].ttl <= hops

(***************************************************************************)
(* C12: every iteration sends exactly one probe and accepts at most one     *)
(* reply, and no TTL is probed twice in a run: the probes and the receives  *)
(* correspond one to one, in order and TTL by TTL, and the TTLs of the      *)
(* probes of a call are pairwise different.                                 *)
(***************************************************************************)
C12_OneProbePerTtl ==
    /\ Len(rcvd) <= Len(sent)
    /\ Len(sent) <= Len(rcvd) + 1
    /\ \A i \in DOMAIN rcvd :
          sent[i].ttl = rcvd[i].ttl /\ sent[i].call = rcvd[i].call
    /\ \A i, j \in DOMAIN sent :
          (i # j /\ sent[i].call = sent[j].call) => sent[i].ttl # sent[j].ttl
    /\ \A i, j \in DOMAIN rcvd :
          (i # j /\ rcvd[i].call = rcvd[j].call) => rcvd[i].ttl # rcvd[j].ttl
    /\ \A i, j \in DOMAIN HopLines :
          (i # j /\ HopLines[i].call = HopLines[j].call)
              => HopLines[i].ttl # HopLines[j].ttl

\* TTL 1 got no reply and the next probe went out with TTL 2
C12_Witness ==
    /\ Len(sent) = 2
    /\ sent[2].ttl = 2
    /\ rcvd[1].ip = None
    /\ HopLines[1] = [kind |-> "star", call |-> 1, ttl |-> 1]

(***************************************************************************)
(* C13: get_geoip returns a text for every result of the lookup and no      *)
(* exception leaves it: 'city, country (Lat, Lon)' when the response has a  *)
(* city, 'country (Lat, Lon)' when it has none, the fixed unknown-location  *)
(* text when the address is not in the database, and the error text with    *)
(* the exception otherwise.  Stated of the location of every printed reply. *)
(***************************************************************************)
C13_Forms ==
    \A k \in DOMAIN stdout :
        stdout[k].kind = "reply" =>
            LET response == geoip_reader[stdout[k].ip]
                location == stdout[k].location
                coords   == <<" (Lat: ", response.latitude, ", Lon: ",
                              response.longitude, ")">>
            IN  /\ (response.kind = "response" /\ response.city # None) =>
                      location = <<response.city, ", ", response.country>> \o coords
                /\ (response.kind = "response" /\ response.city = None) =>
                      location = <<response.country>> \o coords
                /\ response.kind = "AddressNotFoundError" =>
                      location = <<"Localizacao desconhecida">>
                /\ response.kind = "Exception" =>
                      location = <<"Erro ao obter localizacao: ", response.e>>

C13_LocationForms ==
    /\ []C13_Forms
    /\ [][(pc = "emit" /\ addr # NoneAddr) => (pc' # "raised" /\ error' = None)]_vars

\* both forms of a resolved location were printed in one run
C13_Witness ==
    /\ Len(HopLines) = 2
    /\ HopLines[1].kind = "reply" /\ HopLines[2].kind = "reply"
    /\ Len(HopLines[1].location) = 8
    /\ Len(HopLines[2].location) = 6

(***************************************************************************)
(* The same program with the cause of every received datagram recorded.    *)
(* The receiver is a raw ICMP socket: recvfrom (line 64) returns whatever   *)
(* ICMP datagram reaches the host while it waits, and the network may       *)
(* delay or duplicate the answer to a probe, so the datagram captured in    *)
(* an iteration is the answer to any probe the call has sent so far.        *)
(***************************************************************************)
RecvReplyTo ==
    /\ pc = "recvfrom"
    /\ \E ip \in ReplyAddrs, t \in Times,
          k \in {sent[j].ttl : j \in {n \in DOMAIN sent : sent[n].call = calls}} :
          /\ addr' = <<ip, 0>>
          /\ end_time' = t
          /\ rcvd' = Append(rcvd, [call |-> calls, ttl |-> ttl, ip |-> ip, cause |-> k])
    /\ recv_res' = "ok"
    /\ pc' = "finally"
    /\ UNCHANGED <<calls, error, exit_line, fields, dst_ip, start_time, receiver, sender,
                   sockets, resolved, sent, stdout>>

NextNet ==
    \/ TracerInitOk
    \/ TracerInitFail
    \/ RunResolveOk
    \/ RunResolveFail
    \/ StartTime
    \/ CreateReceiverOk
    \/ CreateReceiverSocketFail
    \/ CreateReceiverBindFail
    \/ CreateSenderOk
    \/ CreateSenderFail
    \/ SendProbeOk
    \/ SendProbeFail
    \/ RecvReplyTo
    \/ RecvError
    \/ Finally
    \/ EmitReply
    \/ EmitStar
    \/ Incr

SpecNet == Init /\ [][NextNet]_vars

(***************************************************************************)
(* C14: a datagram caused by the probe of TTL k is accepted only by the     *)
(* iteration of TTL k, so every reply line (and every destination match)    *)
(* is reported for the TTL of the probe that caused it.                     *)
(***************************************************************************)
C14_RepliesIsolated ==
    \A i \in DOMAIN rcvd :
        rcvd[i].ip # None =>
            /\ rcvd[i].cause = rcvd[i].ttl
            /\ i \in DOMAIN HopLines => HopLines[i].ttl = rcvd[i].cause

(***************************************************************************)
(* C15: during a run at most one receiving and at most one sending socket   *)
(* of the session are open, and none is open when an iteration starts or    *)
(* goes to create its receiver: the bind of an iteration never meets a      *)
(* socket left by an earlier iteration.                                     *)
(***************************************************************************)
C15_AtMostOneEndpoint ==
    /\ openRecv \in {0, 1}
    /\ openSend \in {0, 1}
    /\ pc \in {"start_time", "create_receiver"} => (openRecv = 0 /\ openSend = 0)
    /\ (pc = "create_receiver" /\ HasReceiver) => receiver.closed
    /\ (pc = "create_receiver" /\ HasSender) => sender.closed

\* the second iteration is about to create its receiver
C15_Witness ==
    /\ pc = "create_receiver"
    /\ ttl = 2
    /\ HasReceiver
    /\ receiver.closed
    /\ openRecv = 0

(***************************************************************************)
(* C16: order of the steps of an iteration.  A sender is created only with  *)
(* the receiver bound; a probe is sent only with both sockets open, with    *)
(* the current ttl as its TTL; a receive is attempted only after the probe  *)
(* of the iteration was sent; a hop result is printed only with both        *)
(* sockets closed; ttl is incremented only after the hop result of its      *)
(* value was printed.                                                       *)
(***************************************************************************)
C16_StepOrder ==
    [][/\ openSend' > openSend =>
             /\ HasReceiver
             /\ ~receiver.closed
             /\ openRecv = 1
             /\ Len(sent) = Len(rcvd)
       /\ sent' # sent =>
             /\ ~receiver.closed /\ ~sender.closed
             /\ openRecv = 1 /\ openSend = 1
             /\ sent' = Append(sent, sent'[Len(sent')])
             /\ sent'[Len(sent')].ttl = ttl
             /\ Len(sent) = Len(rcvd)
       /\ rcvd' # rcvd =>
             /\ Len(sent) = Len(rcvd) + 1
             /\ sent[Len(sent)].ttl = ttl
             /\ ~receiver.closed
             /\ stdout' = stdout
       /\ (stdout' # stdout /\ IsHop(stdout'[Len(stdout')])) =>
             /\ receiver.closed /\ sender.closed
             /\ openRecv = 0 /\ openSend = 0
             /\ Len(rcvd) = Len(HopLines) + 1
             /\ stdout'[Len(stdout')].ttl = ttl
             /\ ttl' = ttl
       /\ (pc # "new" /\ ttl' # ttl) =>
             /\ ttl' = ttl + 1
             /\ HopLines # <<>>
             /\ HopLines[Len(HopLines)].ttl = ttl
             /\ Len(HopLines) = Len(rcvd)
             /\ stdout' = stdout]_vars

\* the second iteration has sent its probe with TTL 2
C16_Witness ==
    /\ pc = "recvfrom"
    /\ ttl = 2
    /\ sent[Len(sent)].ttl = 2
    /\ Len(HopLines) = 1

(***************************************************************************)
(* C17: no step after construction changes dst, hops, port or the opened    *)
(* database, and no step of the loop changes dst_ip; port lies in           *)
(* 33434..33534 and is the port of every receiver bound and of every probe  *)
(* sent.                                                                    *)
(***************************************************************************)
C17_OnlyTtlChanges ==
    /\ [](pc \notin {"new", "init_failed"} =>
            /\ port \in PortLow .. (PortHigh - 1)
            /\ dst = Host
            /\ \A i \in DOMAIN sent : sent[i].port = port
            /\ HasReceiver => receiver.port = port)
    /\ [][pc # "new" =>
             /\ port' = port
             /\ dst' = dst
             /\ hops' = hops
             /\ geoip_reader' = geoip_reader
             /\ (dst_ip # None /\ pc' \notin {"returned", "raised"}) => dst_ip' = dst_ip]_vars

\* two probes of one run, sent to the same port, the last port of the range
C17_Witness ==
    /\ Len(sent) = 2
    /\ sent[1].port = PortHigh - 1
    /\ sent[2].port = PortHigh - 1
    /\ ttl = 2

(***************************************************************************)
(* The program is sequential and each of its steps ends: every call         *)
(* returns or raises and the receive is bounded by the timeout set at       *)
(* lines 97-98, so a step that is possible is eventually taken.  Every     *)
(* step of the program moves pc.                                            *)
(***************************************************************************)
FairSpec == Spec /\ WF_pc(Next)

\* the two ways run() returns
DestinationReached ==
    /\ exit_line = 77
    /\ rcvd # <<>>
    /\ Matched(Len(rcvd))
HopLimitExhausted ==
    /\ exit_line = 84
    /\ ttl > hops
    /\ NoMatch

(***************************************************************************)
(* C18: the session ends (run() returns or raises, or the constructor       *)
(* raises), and a run() that returned is in exactly one of the two          *)
(* terminal states: destination reached, or hop limit exhausted without a   *)
(* match.                                                                   *)
(***************************************************************************)
C18_Terminates ==
    /\ <>(pc \in {"returned", "raised", "init_failed"})
    /\ [](pc = "returned" =>
            /\ DestinationReached \/ HopLimitExhausted
            /\ ~(DestinationReached /\ HopLimitExhausted))

\* the hop limit was exhausted although hops answered
C18_Witness ==
    /\ pc = "returned"
    /\ HopLimitExhausted
    /\ hops = 2
    /\ rcvd[1].ip # None
    /\ rcvd[2].ip # None

(***************************************************************************)
(* C19: after run() returned on a freshly constructed Tracer with           *)
(* hops >= 1, the counter tells the two outcomes apart: ttl <= hops exactly *)
(* when the destination was reached, and ttl is then the TTL of the         *)
(* matching hop (a match at TTL = hops included); ttl = hops + 1 exactly    *)
(* when the hop limit was exhausted.                                        *)
(***************************************************************************)
C19_TtlTellsOutcome ==
    (pc = "returned" /\ calls = 1 /\ hops >= 1) =>
        /\ (ttl <= hops) <=> DestinationReached
        /\ DestinationReached => ttl = rcvd[Len(rcvd)].ttl
        /\ (ttl = hops + 1) <=> HopLimitExhausted

\* the destination answers the last probe the hop limit allows
C19_Witness ==
    /\ pc = "returned"
    /\ calls = 1
    /\ hops = MaxHops
    /\ ttl = hops
    /\ DestinationReached
    /\ Len(sent) = hops

(***************************************************************************)
(* A caller that keeps the Tracer and calls run() once more after the       *)
(* first call returned.  The second call executes the same code on the      *)
(* same object: nothing between line 34 and line 56 assigns self.ttl.       *)
(***************************************************************************)
CallableAgain == pc = "returned" /\ calls = 1

\* lines 43-54 of the second call
RunAgainResolveOk ==
    /\ CallableAgain
    /\ calls' = calls + 1
    /\ error' = None
    /\ exit_line' = 0
    /\ \E a \in HostAddrs :
          /\ dst_ip' = a
          /\ resolved' = Append(resolved, [call |-> calls + 1, by |-> "gethostbyname", result |-> a])
          /\ stdout' = Append(stdout, [kind |-> "banner", call |-> calls + 1,
                                       dst |-> dst, dst_ip |-> a, hops |-> hops])
    /\ pc' = "start_time"
    /\ UNCHANGED <<fields, start_time, end_time, receiver, sender, addr, recv_res,
                   sockets, sent, rcvd>>

\* lines 43-46 of the second call: gethostbyname raises
RunAgainResolveFail ==
    /\ CallableAgain
    /\ calls' = calls + 1
    /\ exit_line' = 0
    /\ resolved' = Append(resolved, [call |-> calls + 1, by |-> "gethostbyname", result |-> None])
    /\ Raise("IOError_destino")
    /\ UNCHANGED <<fields, sockets, sent, rcvd, stdout>>

NextAgain ==
    \/ Next
    \/ RunAgainResolveOk
    \/ RunAgainResolveFail

SpecAgain == Init /\ [][NextAgain]_vars

\* the receives of call c
RcvdOf(c) == SelectSeq(rcvd, LAMBDA r : r.call = c)

\* what the claim says the first call left in self.ttl: the TTL of the
\* matching hop if it reached the destination, hops + 1 otherwise
TtlLeftByFirst ==
    LET r == RcvdOf(1)
    IN  IF r # <<>> /\ r[Len(r)].ip # None /\ r[Len(r)].ip = DstIpOf(1)
        THEN r[Len(r)].ttl
        ELSE hops + 1

\* the first probe of the second call carries the TTL the first call left
FirstProbeOfSecond == (calls = 2 /\ SentOf(2) # <<>>) => SentOf(2)[1].ttl = TtlLeftByFirst

(***************************************************************************)
(* C20: run() never resets or decreases self.ttl; the first probe of a      *)
(* second run() carries the TTL the first call left (the matching hop's     *)
(* TTL after destination reached, hops + 1 after hop limit exhausted); and  *)
(* a second run() that returned has sent at least one probe.                *)
(***************************************************************************)
C20_SecondRunContinues ==
    /\ [][calls >= 1 => ttl' >= ttl]_vars
    /\ []FirstProbeOfSecond
    /\ []((calls = 2 /\ pc = "returned") => SentOf(2) # <<>>)

\* the same statement for the hop counts from 1 on
C20_FromOne ==
    /\ [][calls >= 1 => ttl' >= ttl]_vars
    /\ [](hops >= 1 => FirstProbeOfSecond)
    /\ []((calls = 2 /\ pc = "returned") => SentOf(2) # <<>>)

====
